---- MODULE Spec2Model ----
(***************************************************************************)
(* Strava -> PostgreSQL incremental ingestion                              *)
(* (src/src/ingestion/ingest_strava_postgres.py).                          *)
(*                                                                         *)
(* The store is modelled as a committed image (db) and the image seen by   *)
(* the open transaction of the single connection (tx).  The provider       *)
(* (token endpoint, /athlete, /athlete/activities) is the environment.     *)
(* One action per stretch of code between two external interactions.       *)
(***************************************************************************)
EXTENDS Integers, Sequences, FiniteSets, TLC

VARIABLES
    db,          \* committed tables: athletes, strava_tokens, ingestion_state, activities
    tx,          \* the tables as seen inside the connection's open transaction
    prov_valid,  \* provider: athlete -> generation of the refresh credential it accepts
    prov_acts,   \* provider: the activity records it holds
    pc,          \* position of main(): idle/refresh/profile/page/upsert/commit/done/raised/killed
    run,         \* parsed arguments of the invocation
    targets,     \* main(): targets, a sequence of <<athlete_hint, refresh_token>>
    ti,          \* main(): index of the target being processed
    loc,         \* ingest_one_athlete(): locals
    attempt,     \* strava_get(): attempt
    sleeps,      \* strava_get(): the delays slept by the latest call, in order
    pending,     \* summary returned by ingest_one_athlete, before conn.commit()
    summaries,   \* main(): summaries
    failed,      \* athlete hints logged by LOG.exception in this invocation
    clock,       \* now() of the open transaction: committed transactions so far
    runs,        \* invocations of main() so far
    events,      \* provider-side changes so far
    dirty,       \* the provider's data changed while the current sync was running
    pages,       \* successful /athlete/activities responses of the current sync
    jobs,        \* build_features: invocations of main() so far
    warned       \* <<hint, athlete_id>> of the "Athlete id mismatch" warnings of this invocation

vars == <<db, tx, prov_valid, prov_acts, pc, run, targets, ti, loc, attempt, sleeps,
          pending, summaries, failed, clock, runs, events, dirty, pages, jobs,
          warned>>

----------------------------------------------------------------------------
(* Bounds of the model *)

MaxRuns == 1
MaxEvents == 1
MaxJobs == 2

(* Program constants *)

max_retries == 4
Margin == 60
\* interval '7 days', interval '28 days', in seconds
Days7 == 604800
Days28 == 2419200

(* Universes *)

NULL == <<>>
Athletes == {1, 2}
ActIds == {1, 2, 3}
\* start_date values "....T00:mm:ssZ", kept as <<mm, ss>>: 1050 s, 1170 s, 1200 s
StartDates == {<<17, 30>>, <<19, 30>>, <<20, 0>>}
PerPages == {1, 2}
AfterDefaults == {1000}
Statuses == {200, 401, 429, 501, 503}
\* JSON bodies that are not lists: an object with `size` keys, null
NonListBodies ==
    {[type |-> "object", size |-> n] : n \in {0, 1}} \cup {[type |-> "null", size |-> 0]}

\* The provider's owner of an activity id (activity ids are global).
OwnerOf(id) == IF id = 3 THEN 2 ELSE 1

Max2(a, b) == IF a >= b THEN a ELSE b
Min2(a, b) == IF a <= b THEN a ELSE b

----------------------------------------------------------------------------
(* Pure helpers of the ingestion module *)

\* iso_to_epoch: "…T00:mm:ssZ" -> epoch seconds
iso_to_epoch(s) == s[1] * 60 + s[2]

EmptyStore ==
    [athletes |-> {}, strava_tokens |-> {}, ingestion_state |-> {}, activities |-> {},
     activity_features |-> {}]

\* select value from ingestion_state where athlete_id=.. ; default when no row
db_get_last_after_epoch(st, athlete_id, after_default) ==
    LET rows == {r \in st.ingestion_state : r.athlete_id = athlete_id}
    IN  IF rows # {} THEN (CHOOSE r \in rows : TRUE).value ELSE after_default

\* insert .. on conflict (athlete_id, source, key) do update set value=excluded.value
db_set_last_after_epoch(st, athlete_id, value) ==
    [st EXCEPT !.ingestion_state =
        {r \in @ : r.athlete_id # athlete_id}
            \cup {[athlete_id |-> athlete_id, value |-> value]}]

\* insert into athletes .. on conflict (athlete_id) do update
db_upsert_athlete(st, athlete_id) ==
    [st EXCEPT !.athletes =
        {r \in @ : r.athlete_id # athlete_id} \cup {[athlete_id |-> athlete_id]}]

\* insert into strava_tokens .. on conflict (athlete_id) do update
\* Faulty variant: the update is not restricted to the athlete's row.
UpsertTokensAllRows(st, athlete_id, access_token, refresh_token) ==
    [st EXCEPT !.strava_tokens =
        {[athlete_id |-> r.athlete_id, access_token |-> access_token,
          refresh_token |-> refresh_token] : r \in @}
            \cup {[athlete_id |-> athlete_id, access_token |-> access_token,
                   refresh_token |-> refresh_token]}]

db_upsert_tokens(st, athlete_id, access_token, refresh_token) ==
    [st EXCEPT !.strava_tokens =
        {r \in @ : r.athlete_id # athlete_id}
            \cup {[athlete_id |-> athlete_id, access_token |-> access_token,
                   refresh_token |-> refresh_token]}]

\* The empty string as a stored refresh_token.
EmptyString == <<0>>

\* select refresh_token from strava_tokens where athlete_id=..; None when absent or empty
db_get_refresh_token(st, athlete_id) ==
    LET rows == {r \in st.strava_tokens : r.athlete_id = athlete_id}
    IN  IF rows # {} /\ (CHOOSE r \in rows : TRUE).refresh_token # EmptyString
        THEN (CHOOSE r \in rows : TRUE).refresh_token ELSE NULL

RECURSIVE OrderByAthlete(_)
OrderByAthlete(rows) ==
    IF rows = {} THEN <<>>
    ELSE LET r == CHOOSE x \in rows : \A y \in rows : x.athlete_id <= y.athlete_id
         IN  <<r>> \o OrderByAthlete(rows \ {r})

\* Faulty variant: every token row is a target.
ListAllTokenRows(st) ==
    LET rows == OrderByAthlete(st.strava_tokens)
    IN  [i \in 1..Len(rows) |-> <<rows[i].athlete_id, rows[i].refresh_token>>]

\* select athlete_id, refresh_token .. where refresh_token is not null and <> '' order by athlete_id
db_list_athletes_with_refresh_tokens(st) ==
    LET rows == OrderByAthlete({r \in st.strava_tokens :
                                   r.refresh_token # NULL /\ r.refresh_token # EmptyString})
    IN  [i \in 1..Len(rows) |-> <<rows[i].athlete_id, rows[i].refresh_token>>]

\* a.get(key): None when the record has no such key
get(a, key) == IF key \in DOMAIN a THEN a[key] ELSE NULL

\* The row written for record a: the columns the programs read, and the payload.
ActivityRow(athlete_id, a, now) ==
    [activity_id |-> a.id, athlete_id |-> athlete_id, start_date |-> a.start_date,
     moving_time |-> get(a, "moving_time"), distance_m |-> get(a, "distance"),
     total_elevation_gain_m |-> get(a, "total_elevation_gain"),
     raw |-> a, updated_at |-> now]

\* Faulty variant: the insert without its conflict clause.
InsertActivityNoConflict(st, athlete_id, a, now) ==
    [st EXCEPT !.activities = @ \cup {ActivityRow(athlete_id, a, now)}]

\* Faulty variant: on conflict do nothing.
UpsertDoNothingOnConflict(st, athlete_id, a, now) ==
    IF \E r \in st.activities : r.activity_id = a.id THEN st
    ELSE [st EXCEPT !.activities = @ \cup {ActivityRow(athlete_id, a, now)}]

\* insert into activities .. on conflict (activity_id) do update set <every column>
db_upsert_activity(st, athlete_id, a, now) ==
    [st EXCEPT !.activities =
        {r \in @ : r.activity_id # a.id} \cup {ActivityRow(athlete_id, a, now)}]

----------------------------------------------------------------------------
(* build_features.py: FEATURE_SQL *)

\* with base as (select .. from activities where start_date is not null)
base(st) == {r \in st.activities : r.start_date # NULL}

RECURSIVE SumOf(_, _)
SumOf(rows, col) ==
    IF rows = {} THEN 0
    ELSE LET r == CHOOSE x \in rows : TRUE
         IN  r[col][1] + SumOf(rows \ {r}, col)

\* sum(col) over a frame: NULL values are skipped, NULL when nothing is left
sql_sum(rows, col) ==
    LET present == {r \in rows : r[col] # NULL}
    IN  IF present = {} THEN NULL ELSE <<SumOf(present, col)>>

\* Faulty variant: the frame is not partitioned by athlete.
FrameAllAthletes(b, r, width) ==
    {x \in b : /\ iso_to_epoch(x.start_date) >= iso_to_epoch(r.start_date) - width
               /\ iso_to_epoch(x.start_date) <= iso_to_epoch(r.start_date)}

\* over (partition by athlete_id order by start_date
\*       range between interval 'N days' preceding and current row)
frame(b, r, width) ==
    {x \in b : /\ x.athlete_id = r.athlete_id
               /\ iso_to_epoch(x.start_date) >= iso_to_epoch(r.start_date) - width
               /\ iso_to_epoch(x.start_date) <= iso_to_epoch(r.start_date)}

\* Faulty variant: zero instead of NULL.
RatioOrZero(num, distance_m) ==
    IF distance_m # NULL /\ distance_m[1] > 0 /\ num # NULL
    THEN <<(num[1] * 1000) \div distance_m[1]>>
    ELSE <<0>>

\* case when distance_m is not null and distance_m > 0 and <num> is not null
\*      then <num>::double precision / (distance_m/1000.0) else null end
\* (the measurements of MeasureSets divide exactly, so the quotient is an integer)
ratio(num, distance_m) ==
    IF distance_m # NULL /\ distance_m[1] > 0 /\ num # NULL
    THEN <<(num[1] * 1000) \div distance_m[1]>>
    ELSE NULL

\* One row of `feat`, with the computed-at timestamp of the insert (the heart-rate
\* and power columns are copied like the three measurements and are left out).
FeatureRow(b, r, now) ==
    [activity_id |-> r.activity_id, athlete_id |-> r.athlete_id,
     start_date |-> r.start_date,
     moving_time_s |-> r.moving_time, distance_m |-> r.distance_m,
     elevation_gain_m |-> r.total_elevation_gain_m,
     pace_s_per_km |-> ratio(r.moving_time, r.distance_m),
     elev_m_per_km |-> ratio(r.total_elevation_gain_m, r.distance_m),
     dist_7d_m |-> sql_sum(frame(b, r, Days7), "distance_m"),
     elev_7d_m |-> sql_sum(frame(b, r, Days7), "total_elevation_gain_m"),
     time_7d_s |-> sql_sum(frame(b, r, Days7), "moving_time"),
     dist_28d_m |-> sql_sum(frame(b, r, Days28), "distance_m"),
     elev_28d_m |-> sql_sum(frame(b, r, Days28), "total_elevation_gain_m"),
     time_28d_s |-> sql_sum(frame(b, r, Days28), "moving_time"),
     updated_at |-> now]

\* select .. from feat
feat(st, now) == {FeatureRow(base(st), r, now) : r \in base(st)}

\* insert into activity_features .. on conflict (activity_id) do update set <every column>
feature_upsert(st, rows) ==
    [st EXCEPT !.activity_features =
        {f \in @ : \A n \in rows : n.activity_id # f.activity_id} \cup rows]

----------------------------------------------------------------------------
\* db_upsert_activity's return value: <<epoch>>, or NULL for a record without start_date
upsert_epoch(a) ==
    IF a.start_date # NULL THEN <<iso_to_epoch(a.start_date)>> ELSE NULL

\* Faulty variant: a record without a start date is neither written nor counted.
RECURSIVE UpsertLoopSkipUndated(_, _, _, _, _)
UpsertLoopSkipUndated(acc, athlete_id, activities, now, i) ==
    IF i > Len(activities) THEN acc
    ELSE LET a == activities[i]
         IN  UpsertLoopSkipUndated(
                 IF a.start_date = NULL THEN acc
                 ELSE [st |-> db_upsert_activity(acc.st, athlete_id, a, now),
                       upserted |-> acc.upserted + 1,
                       max_epoch |-> Max2(acc.max_epoch, iso_to_epoch(a.start_date))],
                 athlete_id, activities, now, i + 1)

RECURSIVE upsert_loop(_, _, _, _, _)
\* for a in activities: db_upsert_activity; upserted += 1; max_epoch = max(max_epoch, new_epoch)
upsert_loop(acc, athlete_id, activities, now, i) ==
    IF i > Len(activities) THEN acc
    ELSE LET a == activities[i]
             e == upsert_epoch(a)
         IN  upsert_loop(
                 [st |-> db_upsert_activity(acc.st, athlete_id, a, now),
                  upserted |-> acc.upserted + 1,
                  max_epoch |-> IF e # NULL THEN Max2(acc.max_epoch, e[1])
                                ELSE acc.max_epoch],
                 athlete_id, activities, now, i + 1)

\* Faulty variant: the cursor is advanced without the safety margin.
AdvancedToNoMargin(after_epoch, max_epoch) ==
    IF max_epoch > after_epoch THEN max_epoch ELSE after_epoch

\* advanced_to = after_epoch; if max_epoch > after_epoch: advanced_to = max_epoch - 60
advanced_to(after_epoch, max_epoch) ==
    IF max_epoch > after_epoch THEN max_epoch - Margin ELSE after_epoch

\* ingest_one_athlete: the upsert loop over the whole batch
upsert_all(st, athlete_id, after_epoch, activities, now) ==
    upsert_loop([st |-> st, upserted |-> 0, max_epoch |-> after_epoch],
                athlete_id, activities, now, 1)

\* if max_epoch > after_epoch: db_set_last_after_epoch(conn, athlete_id, advanced_to)
cursor_write(res, athlete_id, after_epoch) ==
    IF res.max_epoch > after_epoch
    THEN db_set_last_after_epoch(res.st, athlete_id, advanced_to(after_epoch, res.max_epoch))
    ELSE res.st

\* db_upsert_athlete(conn, athlete); db_upsert_tokens(conn, athlete_id, token_data, new_refresh)
profile_writes(st, athlete_id, access_token, refresh_token) ==
    db_upsert_tokens(db_upsert_athlete(st, athlete_id), athlete_id, access_token, refresh_token)

\* Faulty variant: the response's refresh_token field is stored as it came.
NewRefreshAsReturned(returned, refresh_token) == returned

\* new_refresh = token_data.get("refresh_token") or refresh_token
new_refresh(returned, refresh_token) ==
    IF returned # NULL /\ returned # EmptyString THEN returned ELSE refresh_token

\* token_data.get("refresh_token") of a response that keeps the credential valid:
\* the credential itself, None (no such field), or "".
RefreshBodies == {"same", "absent", "empty"}

Returned(body, refresh_token) ==
    CASE body = "same" -> refresh_token
      [] body = "absent" -> NULL
      [] OTHER -> EmptyString

\* strava_get: the branch of the loop body a response status takes
strava_get_step(status) ==
    IF status = 429 \/ status \in {500, 502, 503, 504} THEN "retry"
    ELSE IF status >= 400 THEN "raise" ELSE "return"

\* Faulty variant: linear backoff.
SleepLinear(att) == att + 1

\* sleep_s = 2 ** attempt
sleep_s(att) == 2 ^ att

\* Python truth value of a decoded non-list body: None and {} are false
truthy(body) == body.type # "null" /\ body.size # 0

\* Faulty variant: the pages are concatenated in the wrong order.
ExtendFront(out, data) == data \o out

\* out.extend(data)
extend(out, data) == out \o data

\* Faulty variant: nothing is undone.
RollbackSkipped(committed, working) == working

\* conn.rollback(): the open transaction's writes are discarded
rollback(committed, working) == committed

\* conn.commit(): the open transaction's writes become the committed image
commit(committed, working) == working

\* Faulty variant: the first failure ends the loop over targets.
OnExceptionAbort(i, n) == "done"

\* the for loop over targets: the next iteration, or the end of main()
next_pc(i, n) == IF i < n THEN "refresh" ELSE "done"

\* except Exception: rollback, log, and fall through to the next iteration
on_exception_pc(i, n) == next_pc(i, n)

----------------------------------------------------------------------------
(* The provider *)

\* The JSON record the provider returns for a held activity.
Payload(r) == [k \in DOMAIN r \ {"athlete"} |-> r[k]]

SortKey(r) == IF r.start_date = NULL THEN r.id ELSE iso_to_epoch(r.start_date) * 10 + r.id

RECURSIVE OrderByStart(_)
OrderByStart(rs) ==
    IF rs = {} THEN <<>>
    ELSE LET r == CHOOSE x \in rs : \A y \in rs : SortKey(x) <= SortKey(y)
         IN  <<Payload(r)>> \o OrderByStart(rs \ {r})

\* GET /athlete/activities?after=&page=&per_page= with the bearer token of `owner`:
\* the owner's activities that start strictly after `after` (a record without a
\* start date cannot be filtered out), oldest first, cut into pages.
ProviderList(held, owner, after) ==
    OrderByStart({r \in held :
        /\ r.athlete = owner
        /\ (r.start_date = NULL \/ iso_to_epoch(r.start_date) > after)})

ProviderPage(owner, after, page, per_page) ==
    LET all == ProviderList(prov_acts, owner, after)
        lo  == (page - 1) * per_page + 1
        hi  == Min2(page * per_page, Len(all))
    IN  SubSeq(all, lo, hi)

----------------------------------------------------------------------------
(* State machine *)

\* The environment of the invocations: STRAVA_PER_PAGE, STRAVA_AFTER_EPOCH_DEFAULT
STRAVA_PER_PAGE == 1
STRAVA_AFTER_EPOCH_DEFAULT == 1000

\* --per-page and --after-default as given on the command line (NULL: not given)
PerPageArgs == {NULL, <<2>>}
AfterDefaultArgs == {NULL}

\* The arguments of the invocations before the first one of the behaviour.
Run0 ==
    [mode |-> "all", athlete_id |-> 0, per_page |-> 1, after_default |-> 1000,
     args |-> [per_page |-> NULL, after_default |-> NULL]]

Loc0 ==
    [refresh_token |-> NULL, access_token |-> 0, new_refresh |-> NULL,
     athlete_id |-> 0, after_epoch |-> 0, page |-> 0, out |-> <<>>]

\* A refresh credential the provider rejects (revoked, or never issued).
RevokedCredentials == {<<1, -1>>}

\* The refresh credentials the provider has issued so far.
Credentials == UNION {{<<a, g>> : g \in 0..prov_valid[a]} : a \in Athletes}

InSync == {"refresh", "profile", "page", "upsert", "commit"}

\* A store left by earlier bootstrap runs: profile and token rows of some athletes.
SeededStore(S) ==
    [EmptyStore EXCEPT
        !.athletes = {[athlete_id |-> a] : a \in S},
        !.strava_tokens = {[athlete_id |-> a, access_token |-> a,
                            refresh_token |-> <<a, 0>>] : a \in S}]

\* ingest_one_athlete of athlete_id over the provider's `held` activities, committed.
EarlierSync(st, athlete_id, held, after_default, now) ==
    LET written == profile_writes(st, athlete_id, athlete_id, <<athlete_id, 0>>)
        after_epoch == db_get_last_after_epoch(written, athlete_id, after_default)
        activities == ProviderList(held, athlete_id, after_epoch)
    IN  cursor_write(upsert_all(written, athlete_id, after_epoch, activities, now),
                     athlete_id, after_epoch)

\* The activities the provider holds initially.
ProviderSeeds == {{}, {[id |-> 1, athlete |-> 1, start_date |-> <<20, 0>>]}}

\* The store and the provider as earlier invocations left them: token rows of some
\* athletes, and possibly one committed sync of athlete 1.
Init ==
    /\ \E S \in SUBSET Athletes, held \in ProviderSeeds, synced \in BOOLEAN,
          ad \in AfterDefaults :
          /\ synced => (1 \in S /\ held # {})
          /\ prov_acts = held
          /\ db = IF synced THEN EarlierSync(SeededStore(S), 1, held, ad, 0)
                            ELSE SeededStore(S)
          /\ clock = IF synced THEN 1 ELSE 0
    /\ tx = db
    /\ prov_valid = [a \in Athletes |-> 0]
    /\ pc = "idle"
    /\ run = Run0
    /\ targets = <<>>
    /\ ti = 0
    /\ loc = Loc0
    /\ attempt = 0
    /\ sleeps = <<>>
    /\ pending = <<>>
    /\ summaries = <<>>
    /\ failed = <<>>
    /\ runs = 0
    /\ events = 0
    /\ dirty = FALSE
    /\ pages = <<>>
    /\ jobs = 0
    /\ warned = <<>>

\* main(): args.per_page or int(os.getenv(..)); args.after_default or int(os.getenv(..))
or_env(arg, env) == IF arg # NULL /\ arg[1] # 0 THEN arg[1] ELSE env

\* parse_args() and the two defaults, as main() holds them
parsed(mode, athlete_id, per_page, after_default) ==
    [mode |-> mode,
     athlete_id |-> IF mode = "id" THEN athlete_id ELSE 0,
     per_page |-> or_env(per_page, STRAVA_PER_PAGE),
     after_default |-> or_env(after_default, STRAVA_AFTER_EPOCH_DEFAULT),
     args |-> [per_page |-> per_page, after_default |-> after_default]]

\* main(): "Choose athletes to ingest"
choose_targets(mode, athlete_id, env_token, st) ==
    IF mode = "all" THEN db_list_athletes_with_refresh_tokens(st)
    ELSE IF mode = "id"
         THEN (IF db_get_refresh_token(st, athlete_id) # NULL
               THEN << <<athlete_id, db_get_refresh_token(st, athlete_id)>> >>
               ELSE <<>>)
         ELSE << <<0, env_token>> >>

ResetLocals ==
    /\ loc' = Loc0
    /\ attempt' = 0
    /\ pending' = <<>>
    /\ pages' = <<>>
    /\ dirty' = FALSE

\* main() up to the loop over targets
StartRun(mode, athlete_id, env_token, per_page, after_default) ==
    /\ pc \notin InSync
    /\ runs < MaxRuns
    /\ choose_targets(mode, athlete_id, env_token, db) # <<>>
    /\ targets' = choose_targets(mode, athlete_id, env_token, db)
    /\ run' = parsed(mode, athlete_id, per_page, after_default)
    /\ runs' = runs + 1
    /\ ti' = 1
    /\ pc' = "refresh"
    /\ summaries' = <<>>
    /\ failed' = <<>>
    /\ sleeps' = <<>>
    /\ warned' = <<>>
    /\ ResetLocals
    /\ UNCHANGED <<jobs, db, tx, prov_valid, prov_acts, events, clock>>

\* main(): raise RuntimeError("No athletes with refresh tokens found ..") /
\*         raise RuntimeError("No refresh_token found in DB for athlete_id=..")
StartRunNoTarget(mode, athlete_id, per_page, after_default) ==
    /\ pc \notin InSync
    /\ runs < MaxRuns
    /\ choose_targets(mode, athlete_id, NULL, db) = <<>>
    /\ targets' = <<>>
    /\ run' = parsed(mode, athlete_id, per_page, after_default)
    /\ runs' = runs + 1
    /\ ti' = 0
    /\ pc' = "raised"
    /\ summaries' = <<>>
    /\ failed' = <<>>
    /\ sleeps' = <<>>
    /\ warned' = <<>>
    /\ ResetLocals
    /\ UNCHANGED <<jobs, db, tx, prov_valid, prov_acts, events, clock>>

\* except Exception as e: conn.rollback(); LOG.exception(..)
HandleException ==
    /\ tx' = rollback(db, tx)
    /\ failed' = Append(failed, targets[ti][1])
    /\ pc' = on_exception_pc(ti, Len(targets))
    /\ ti' = ti + 1
    /\ ResetLocals
    /\ UNCHANGED <<jobs, warned, db, summaries, run, targets, runs, prov_acts, events, clock, sleeps>>

\* refresh_access_token returns; ingest_one_athlete reads token_data
RefreshReturns(returned) ==
    /\ pc = "refresh"
    /\ targets[ti][2] = <<targets[ti][2][1], prov_valid[targets[ti][2][1]]>>
    /\ loc' = [Loc0 EXCEPT !.refresh_token = targets[ti][2],
                           !.access_token = targets[ti][2][1],
                           !.new_refresh = new_refresh(returned, targets[ti][2])]
    /\ pc' = "profile"
    /\ attempt' = 0
    /\ sleeps' = <<>>
    /\ UNCHANGED <<jobs, warned, db, tx, prov_acts, run, targets, ti, pending, summaries, failed,
                   clock, runs, events, dirty, pages>>

\* The provider keeps the credential: the response repeats it, or carries none.
RefreshOk(body) ==
    /\ RefreshReturns(Returned(body, targets[ti][2]))
    /\ UNCHANGED prov_valid

\* The provider rotates the credential: the response carries the new one and the old
\* one is no longer accepted.
RefreshRotate ==
    /\ RefreshReturns(<<targets[ti][2][1], targets[ti][2][2] + 1>>)
    /\ prov_valid' = [prov_valid EXCEPT ![targets[ti][2][1]] = @ + 1]

\* Faulty variant: the status of the token response is not looked at.
RefreshFailIgnored ==
    /\ pc = "refresh"
    /\ loc' = [Loc0 EXCEPT !.refresh_token = targets[ti][2],
                           !.access_token = targets[ti][2][1],
                           !.new_refresh = targets[ti][2]]
    /\ pc' = "profile"
    /\ attempt' = 0
    /\ sleeps' = <<>>
    /\ UNCHANGED <<jobs, warned, db, tx, prov_valid, prov_acts, run, targets, ti, pending, summaries,
                   failed, clock, runs, events, dirty, pages>>

\* refresh_access_token: r.status_code >= 400 -> raise (a stale credential gets a 4xx)
RefreshFail ==
    /\ pc = "refresh"
    /\ HandleException
    /\ UNCHANGED prov_valid

\* Faulty variant: the retry moves on to the next page.
StravaGetRetryNextPage(status) ==
    /\ pc \in {"profile", "page"}
    /\ attempt < max_retries
    /\ strava_get_step(status) = "retry"
    /\ sleeps' = Append(sleeps, sleep_s(attempt))
    /\ attempt' = attempt + 1
    /\ loc' = [loc EXCEPT !.page = IF pc = "page" THEN loc.page + 1 ELSE loc.page]
    /\ UNCHANGED <<jobs, warned, db, tx, prov_valid, prov_acts, pc, run, targets, ti, pending,
                   summaries, failed, clock, runs, events, dirty, pages>>

\* strava_get: 429 / 500,502,503,504: sleep, then go on with the next iteration
StravaGetRetry(status) ==
    /\ pc \in {"profile", "page"}
    /\ attempt < max_retries
    /\ strava_get_step(status) = "retry"
    /\ sleeps' = Append(sleeps, sleep_s(attempt))
    /\ attempt' = attempt + 1
    /\ UNCHANGED <<jobs, warned, db, tx, prov_valid, prov_acts, pc, run, targets, ti, loc, pending,
                   summaries, failed, clock, runs, events, dirty, pages>>

\* strava_get raises "Strava API error": another status >= 400
StravaGetFail(status) ==
    /\ pc \in {"profile", "page"}
    /\ attempt < max_retries
    /\ strava_get_step(status) = "raise"
    /\ HandleException
    /\ UNCHANGED prov_valid

\* strava_get: the loop has run max_retries times: raise "Strava API failed after retries"
StravaGetExhausted ==
    /\ pc \in {"profile", "page"}
    /\ attempt = max_retries
    /\ HandleException
    /\ UNCHANGED prov_valid

\* Faulty variant: the hinted id is trusted.
IdFromHint(athlete_id_hint, profile_id) ==
    IF athlete_id_hint # 0 THEN athlete_id_hint ELSE profile_id

\* athlete_id = int(athlete["id"])
discovered_id(athlete_id_hint, profile_id) == profile_id

\* if athlete_id_hint and athlete_id_hint != athlete_id: LOG.warning(..)
mismatch(athlete_id_hint, athlete_id) ==
    athlete_id_hint # 0 /\ athlete_id_hint # athlete_id

\* Faulty variant: the attempt counter is shared by the requests of a sync.
ProfileOkSharedBudget ==
    /\ pc = "profile"
    /\ attempt < max_retries
    /\ LET athlete_id == discovered_id(targets[ti][1], loc.access_token)
           written == profile_writes(tx, athlete_id, loc.access_token, loc.new_refresh)
       IN  /\ tx' = written
           /\ warned' = IF mismatch(targets[ti][1], athlete_id)
                        THEN Append(warned, <<targets[ti][1], athlete_id>>)
                        ELSE warned
           /\ loc' = [loc EXCEPT !.athlete_id = athlete_id,
                                 !.after_epoch = db_get_last_after_epoch(
                                                     written, athlete_id, run.after_default),
                                 !.page = 1,
                                 !.out = <<>>]
    /\ pc' = "page"
    /\ UNCHANGED <<jobs, db, prov_valid, prov_acts, run, targets, ti, pending, summaries,
                   failed, clock, runs, events, dirty, pages, attempt, sleeps>>

\* GET /athlete returns; db_upsert_athlete, db_upsert_tokens, db_get_last_after_epoch
ProfileOk ==
    /\ pc = "profile"
    /\ attempt < max_retries
    /\ strava_get_step(200) = "return"
    /\ LET athlete_id == discovered_id(targets[ti][1], loc.access_token)
           written == profile_writes(tx, athlete_id, loc.access_token, loc.new_refresh)
       IN  /\ tx' = written
           /\ warned' = IF mismatch(targets[ti][1], athlete_id)
                        THEN Append(warned, <<targets[ti][1], athlete_id>>)
                        ELSE warned
           /\ loc' = [loc EXCEPT !.athlete_id = athlete_id,
                                 !.after_epoch = db_get_last_after_epoch(
                                                     written, athlete_id, run.after_default),
                                 !.page = 1,
                                 !.out = <<>>]
    /\ pc' = "page"
    /\ attempt' = 0
    /\ sleeps' = <<>>
    /\ UNCHANGED <<jobs, db, prov_valid, prov_acts, run, targets, ti, pending, summaries,
                   failed, clock, runs, events, dirty, pages>>

\* Faulty variant: the records of a page are upserted as soon as the page arrives.
PageOkStreaming ==
    /\ pc = "page"
    /\ attempt < max_retries
    /\ LET data == ProviderPage(loc.access_token, loc.after_epoch, loc.page, run.per_page)
       IN  /\ pages' = Append(pages, [page |-> loc.page, after |-> loc.after_epoch,
                                     per_page |-> run.per_page, data |-> data,
                                     list |-> TRUE])
           /\ tx' = upsert_all(tx, loc.athlete_id, loc.after_epoch, data, clock).st
           /\ IF data = <<>>
              THEN /\ pc' = "upsert"
                   /\ loc' = loc
              ELSE /\ pc' = "page"
                   /\ loc' = [loc EXCEPT !.out = extend(loc.out, data),
                                         !.page = loc.page + 1]
    /\ attempt' = 0
    /\ sleeps' = <<>>
    /\ UNCHANGED <<jobs, warned, db, prov_valid, prov_acts, run, targets, ti, pending, summaries,
                   failed, clock, runs, events, dirty>>

\* list_activities_since: one page returns (200)
PageOk ==
    /\ pc = "page"
    /\ attempt < max_retries
    /\ strava_get_step(200) = "return"
    /\ LET data == ProviderPage(loc.access_token, loc.after_epoch, loc.page, run.per_page)
       IN  /\ pages' = Append(pages, [page |-> loc.page, after |-> loc.after_epoch,
                                     per_page |-> run.per_page, data |-> data,
                                     list |-> TRUE])
           /\ IF data = <<>>
              THEN /\ pc' = "upsert"
                   /\ loc' = loc
              ELSE /\ pc' = "page"
                   /\ loc' = [loc EXCEPT !.out = extend(loc.out, data),
                                         !.page = loc.page + 1]
    /\ attempt' = 0
    /\ sleeps' = <<>>
    /\ UNCHANGED <<jobs, warned, db, tx, prov_valid, prov_acts, run, targets, ti, pending, summaries,
                   failed, clock, runs, events, dirty>>

\* list_activities_since: a 200 response whose body is not a list and is false in
\* Python: `if not data: break`
PageNotListBreak(body) ==
    /\ pc = "page"
    /\ attempt < max_retries
    /\ strava_get_step(200) = "return"
    /\ ~truthy(body)
    /\ pages' = Append(pages, [page |-> loc.page, after |-> loc.after_epoch,
                               per_page |-> run.per_page, data |-> <<>>,
                               list |-> FALSE])
    /\ pc' = "upsert"
    /\ attempt' = 0
    /\ sleeps' = <<>>
    /\ UNCHANGED <<jobs, warned, db, tx, prov_valid, prov_acts, run, targets, ti, loc, pending,
                   summaries, failed, clock, runs, events, dirty>>

\* list_activities_since: a 200 response whose body is not a list and is true in
\* Python: raise RuntimeError("Unexpected response (expected list) ..")
PageNotListRaise(body) ==
    /\ pc = "page"
    /\ attempt < max_retries
    /\ strava_get_step(200) = "return"
    /\ truthy(body)
    /\ HandleException
    /\ UNCHANGED prov_valid

\* ingest_one_athlete: the upsert loop, the cursor, the summary
Ingest ==
    /\ pc = "upsert"
    /\ LET activities == loc.out
           res == upsert_all(tx, loc.athlete_id, loc.after_epoch, activities, clock)
           adv == advanced_to(loc.after_epoch, res.max_epoch)
       IN  /\ tx' = cursor_write(res, loc.athlete_id, loc.after_epoch)
           /\ pending' = << [athlete_id |-> loc.athlete_id,
                             after_epoch |-> loc.after_epoch,
                             advanced_to |-> adv,
                             retrieved |-> Len(activities),
                             upserted |-> res.upserted,
                             used_refresh_token_changed |->
                                 (loc.new_refresh # loc.refresh_token)] >>
    /\ pc' = "commit"
    /\ UNCHANGED <<jobs, warned, db, prov_valid, prov_acts, run, targets, ti, loc, attempt, sleeps,
                   summaries, failed, clock, runs, events, dirty, pages>>

\* a statement of the upsert loop or the cursor write raises (storage error, bad record)
IngestFail ==
    /\ pc = "upsert"
    /\ HandleException
    /\ UNCHANGED prov_valid

\* conn.commit(); summaries.append(summary)
Commit ==
    /\ pc = "commit"
    /\ db' = commit(db, tx)
    /\ tx' = commit(db, tx)
    /\ summaries' = Append(summaries, pending[1])
    /\ pc' = next_pc(ti, Len(targets))
    /\ ti' = ti + 1
    /\ clock' = clock + 1
    /\ sleeps' = <<>>
    /\ ResetLocals
    /\ UNCHANGED <<jobs, warned, prov_valid, prov_acts, run, targets, failed, runs, events>>

\* conn.commit() raises
CommitFail ==
    /\ pc = "commit"
    /\ HandleException
    /\ UNCHANGED prov_valid

\* the process is killed: the open transaction is never committed
Kill ==
    /\ pc \in InSync
    /\ pc' = "killed"
    /\ tx' = db
    /\ targets' = <<>>
    /\ ti' = 0
    /\ summaries' = <<>>
    /\ failed' = <<>>
    /\ sleeps' = <<>>
    /\ ResetLocals
    /\ UNCHANGED <<jobs, warned, db, prov_valid, prov_acts, run, clock, runs, events>>

\* the provider gains an activity, or an athlete edits one; the program can see the
\* change only through a later page request
ProviderPut(id, start_date) ==
    /\ events < MaxEvents
    /\ pc \in {"idle", "done", "raised", "killed", "page"}
    /\ LET r == [id |-> id, athlete |-> OwnerOf(id), start_date |-> start_date]
       IN  /\ r \notin prov_acts
           /\ prov_acts' = {x \in prov_acts : x.id # id} \cup {r}
    /\ events' = events + 1
    /\ dirty' = (dirty \/ pc \in InSync)
    /\ UNCHANGED <<jobs, warned, db, tx, prov_valid, pc, run, targets, ti, loc, attempt, sleeps,
                   pending, summaries, failed, clock, runs, pages>>

Next ==
    \/ \E mode \in {"all", "id", "env"}, a \in Athletes,
          c \in Credentials \cup RevokedCredentials,
          pp \in PerPageArgs, ad \in AfterDefaultArgs :
            \/ StartRun(mode, a, c, pp, ad)
            \/ StartRunNoTarget(mode, a, pp, ad)
    \/ \E body \in RefreshBodies : RefreshOk(body)
    \/ RefreshFail
    \/ \E status \in Statuses : StravaGetRetry(status) \/ StravaGetFail(status)
    \/ StravaGetExhausted
    \/ ProfileOk
    \/ PageOk
    \/ Ingest
    \/ IngestFail
    \/ Commit
    \/ CommitFail
    \/ Kill
    \/ \E id \in ActIds, sd \in StartDates \cup {NULL} : ProviderPut(id, sd)

Spec == Init /\ [][Next]_vars

----------------------------------------------------------------------------
(* The feature job (src/features/build_features.py) over activity tables   *)
(* written by the ingester.                                                *)

\* moving_time (s), distance (m), total_elevation_gain (m) of a provider record
MeasureSets ==
    {[moving_time |-> <<1500>>, distance |-> <<5000>>, total_elevation_gain |-> <<100>>],
     [moving_time |-> <<600>>, distance |-> <<0>>, total_elevation_gain |-> <<50>>],
     [moving_time |-> <<900>>, distance |-> <<2000>>, total_elevation_gain |-> NULL],
     [moving_time |-> NULL, distance |-> NULL, total_elevation_gain |-> NULL]}

\* start dates 00:20:00 of day 0, the same time 7 and 28 days later, and 1 s after those
FeatureStarts == {<<20, 0>>, <<10100, 0>>, <<10100, 1>>, <<40340, 0>>, <<40340, 1>>}

Measured(id, start_date, m) ==
    [id |-> id, athlete |-> OwnerOf(id), start_date |-> start_date,
     moving_time |-> m.moving_time, distance |-> m.distance,
     total_elevation_gain |-> m.total_elevation_gain]

\* The activities the provider holds initially: activity 1 at day 0 with any
\* measurements, activity 2 of the same athlete anywhere, activity 3 of the other athlete.
FeatureProviderSeeds ==
    LET m1 == CHOOSE m \in MeasureSets : m.distance = <<5000>>
        o1 == {{}} \cup {{Measured(1, <<20, 0>>, m)} : m \in MeasureSets}
        o2 == {{}} \cup {{Measured(2, sd, m1)} : sd \in FeatureStarts \cup {NULL}}
        o3 == {{}, {Measured(3, <<10100, 0>>, m1)}}
    IN  {a \cup b \cup c : a \in o1, b \in o2, c \in o3}

\* Both athletes have been synced (athlete 1, then athlete 2) with the provider's data.
InitFeatures ==
    /\ \E held \in FeatureProviderSeeds, ad \in AfterDefaults :
          /\ prov_acts = held
          /\ db = EarlierSync(EarlierSync(SeededStore(Athletes), 1, held, ad, 0),
                              2, held, ad, 1)
    /\ clock = 2
    /\ tx = db
    /\ prov_valid = [a \in Athletes |-> 0]
    /\ pc = "idle"
    /\ run = Run0
    /\ targets = <<>>
    /\ ti = 0
    /\ loc = Loc0
    /\ attempt = 0
    /\ sleeps = <<>>
    /\ pending = <<>>
    /\ summaries = <<>>
    /\ failed = <<>>
    /\ runs = 0
    /\ events = 0
    /\ dirty = FALSE
    /\ pages = <<>>
    /\ jobs = 0
    /\ warned = <<>>

\* build_features.main(): conn.execute(FEATURE_SQL); conn.commit()
BuildFeatures ==
    /\ pc = "idle"
    /\ jobs < MaxJobs
    /\ db' = feature_upsert(db, feat(db, clock))
    /\ tx' = db'
    /\ clock' = clock + 1
    /\ jobs' = jobs + 1
    /\ UNCHANGED <<prov_valid, prov_acts, pc, run, targets, ti, loc, attempt, sleeps,
                   pending, summaries, failed, runs, events, dirty, pages, warned>>

\* One successful sync of one athlete from start to commit, taken as a single step.
WholeSync(athlete_id) ==
    /\ pc = "idle"
    /\ runs < MaxRuns
    /\ db' = EarlierSync(db, athlete_id, prov_acts, run.after_default, clock)
    /\ tx' = db'
    /\ clock' = clock + 1
    /\ runs' = runs + 1
    /\ UNCHANGED <<jobs, warned, prov_valid, prov_acts, pc, run, targets, ti, loc, attempt,
                   sleeps, pending, summaries, failed, events, dirty, pages>>

NextFeatures ==
    \/ BuildFeatures
    \/ \E a \in Athletes : WholeSync(a)
    \/ \E id \in ActIds, sd \in StartDates \cup {NULL} : ProviderPut(id, sd)

SpecFeatures == InitFeatures /\ [][NextFeatures]_vars

----------------------------------------------------------------------------
\* The activities the provider holds when a token row names the wrong athlete.
MismatchSeeds ==
    {{[id |-> 1, athlete |-> 1, start_date |-> <<17, 30>>],
      [id |-> 3, athlete |-> 2, start_date |-> <<20, 0>>]}}

\* The OAuth flow outside this program stored athlete 1's refresh credential in the
\* token row of athlete 2 (possibly after athlete 2 had been synced with its own).
InitMismatch ==
    /\ \E S \in {{2}}, held \in MismatchSeeds, synced \in BOOLEAN,
          ad \in AfterDefaults :
          /\ prov_acts = held
          /\ db = db_upsert_tokens(IF synced THEN EarlierSync(SeededStore(S), 2, held, ad, 0)
                                             ELSE SeededStore(S),
                                   2, 1, <<1, 0>>)
          /\ clock = IF synced THEN 1 ELSE 0
    /\ tx = db
    /\ prov_valid = [a \in Athletes |-> 0]
    /\ pc = "idle"
    /\ run = Run0
    /\ targets = <<>>
    /\ ti = 0
    /\ loc = Loc0
    /\ attempt = 0
    /\ sleeps = <<>>
    /\ pending = <<>>
    /\ summaries = <<>>
    /\ failed = <<>>
    /\ runs = 0
    /\ events = 0
    /\ dirty = FALSE
    /\ pages = <<>>
    /\ jobs = 0
    /\ warned = <<>>

SpecMismatch == InitMismatch /\ [][Next]_vars

\* Athlete 2 was synced, then the refresh credential in its token row was replaced
\* by athlete 1's (the access token of the row is still athlete 2's); the shared
\* activities table may hold a row for activity 1 (an activity of athlete 1) under
\* athlete 2, written by another writer of the database.
InitForeign ==
    /\ \E held \in MismatchSeeds, foreign \in BOOLEAN, ad \in AfterDefaults :
          LET synced == db_upsert_tokens(EarlierSync(SeededStore({2}), 2, held, ad, 0),
                                         2, 2, <<1, 0>>)
          IN  /\ prov_acts = held
              /\ db = IF foreign
                      THEN db_upsert_activity(synced, 2,
                               [id |-> 1, athlete |-> 1, start_date |-> <<17, 30>>], 0)
                      ELSE synced
    /\ clock = 1
    /\ tx = db
    /\ prov_valid = [a \in Athletes |-> 0]
    /\ pc = "idle"
    /\ run = Run0
    /\ targets = <<>>
    /\ ti = 0
    /\ loc = Loc0
    /\ attempt = 0
    /\ sleeps = <<>>
    /\ pending = <<>>
    /\ summaries = <<>>
    /\ failed = <<>>
    /\ runs = 0
    /\ events = 0
    /\ dirty = FALSE
    /\ pages = <<>>
    /\ jobs = 0
    /\ warned = <<>>

SpecForeign == InitForeign /\ [][Next]_vars

----------------------------------------------------------------------------
\* Token rows without a usable refresh credential, written by the OAuth flow outside
\* this program: athlete 1 has one, athlete 2 has one, a usable row, or no row.
InitBlank ==
    /\ \E blank \in {NULL, EmptyString}, two \in {"absent", "stored", "blank"},
          held \in {{}, {[id |-> 3, athlete |-> 2, start_date |-> <<20, 0>>]}} :
          /\ prov_acts = held
          /\ db = LET st0 == SeededStore(IF two = "absent" THEN {1} ELSE {1, 2})
                      st1 == db_upsert_tokens(st0, 1, 0, blank)
                  IN  IF two = "blank" THEN db_upsert_tokens(st1, 2, 0, blank) ELSE st1
    /\ clock = 0
    /\ tx = db
    /\ prov_valid = [a \in Athletes |-> 0]
    /\ pc = "idle"
    /\ run = Run0
    /\ targets = <<>>
    /\ ti = 0
    /\ loc = Loc0
    /\ attempt = 0
    /\ sleeps = <<>>
    /\ pending = <<>>
    /\ summaries = <<>>
    /\ failed = <<>>
    /\ runs = 0
    /\ events = 0
    /\ dirty = FALSE
    /\ pages = <<>>
    /\ jobs = 0
    /\ warned = <<>>

SpecBlank == InitBlank /\ [][Next]_vars

----------------------------------------------------------------------------
\* The same program invoked with --after-default on the command line.
AfterDefaultOverrides == {<<0>>, <<1100>>}

NextArgs ==
    \/ Next
    \/ \E mode \in {"all", "id", "env"}, a \in Athletes, c \in Credentials,
          ad \in AfterDefaultOverrides :
            \/ StartRun(mode, a, c, NULL, ad)
            \/ StartRunNoTarget(mode, a, NULL, ad)

SpecArgs == Init /\ [][NextArgs]_vars

----------------------------------------------------------------------------
\* The activities the provider holds for athlete 1 when it was first synced.
ResyncSeeds ==
    {{},
     {[id |-> 2, athlete |-> 1, start_date |-> NULL]},
     {[id |-> 1, athlete |-> 1, start_date |-> <<20, 0>>]},
     {[id |-> 1, athlete |-> 1, start_date |-> <<20, 0>>],
      [id |-> 2, athlete |-> 1, start_date |-> <<19, 30>>]}}

\* Athlete 1 has been synced once, successfully, over the provider's present data.
InitResync ==
    /\ \E held \in ResyncSeeds, ad \in AfterDefaults :
          /\ prov_acts = held
          /\ db = EarlierSync(SeededStore({1}), 1, held, ad, 0)
    /\ clock = 1
    /\ tx = db
    /\ prov_valid = [a \in Athletes |-> 0]
    /\ pc = "idle"
    /\ run = Run0
    /\ targets = <<>>
    /\ ti = 0
    /\ loc = Loc0
    /\ attempt = 0
    /\ sleeps = <<>>
    /\ pending = <<>>
    /\ summaries = <<>>
    /\ failed = <<>>
    /\ runs = 0
    /\ events = 0
    /\ dirty = FALSE
    /\ pages = <<>>
    /\ jobs = 0
    /\ warned = <<>>

SpecResync == InitResync /\ [][Next]_vars

\* The same program against a provider that may rotate refresh credentials.
NextRotating == Next \/ RefreshRotate

SpecRotating == Init /\ [][NextRotating]_vars

\* Token rows of both athletes, and a provider holding one activity of athlete 1.
InitRefresh ==
    /\ db = SeededStore({1, 2})
    /\ prov_acts = {[id |-> 1, athlete |-> 1, start_date |-> <<20, 0>>]}
    /\ clock = 0
    /\ tx = db
    /\ prov_valid = [a \in Athletes |-> 0]
    /\ pc = "idle"
    /\ run = Run0
    /\ targets = <<>>
    /\ ti = 0
    /\ loc = Loc0
    /\ attempt = 0
    /\ sleeps = <<>>
    /\ pending = <<>>
    /\ summaries = <<>>
    /\ failed = <<>>
    /\ runs = 0
    /\ events = 0
    /\ dirty = FALSE
    /\ pages = <<>>
    /\ jobs = 0
    /\ warned = <<>>

\* The program against a provider that may rotate credentials and whose activities
\* do not change.
NextRefresh ==
    \/ \E mode \in {"all", "id", "env"}, a \in Athletes,
          c \in Credentials \cup RevokedCredentials,
          pp \in PerPageArgs, ad \in AfterDefaultArgs :
            \/ StartRun(mode, a, c, pp, ad)
            \/ StartRunNoTarget(mode, a, pp, ad)
    \/ \E body \in RefreshBodies : RefreshOk(body)
    \/ RefreshRotate
    \/ RefreshFail
    \/ \E status \in Statuses : StravaGetRetry(status) \/ StravaGetFail(status)
    \/ StravaGetExhausted
    \/ ProfileOk
    \/ PageOk
    \/ Ingest
    \/ IngestFail
    \/ Commit
    \/ CommitFail
    \/ Kill

SpecRefresh == InitRefresh /\ [][NextRefresh]_vars

\* The same program against a provider whose 200 responses to the activities request
\* need not be lists.
NextNonList ==
    Next \/ \E body \in NonListBodies : PageNotListBreak(body) \/ PageNotListRaise(body)

SpecNonList == Init /\ [][NextNonList]_vars

----------------------------------------------------------------------------
(* Vocabulary of the properties *)

\* The step is the except clause of main()'s loop.
FailStep == pc \in InSync /\ Len(failed') = Len(failed) + 1

\* The step is conn.commit() followed by summaries.append(summary).
CommitStep == pc = "commit" /\ Len(summaries') = Len(summaries) + 1

\* The stored cursor of an athlete: <<value>>, or NULL when there is no row.
CursorOf(st, athlete_id) ==
    LET rows == {r \in st.ingestion_state : r.athlete_id = athlete_id}
    IN  IF rows = {} THEN NULL ELSE <<(CHOOSE r \in rows : TRUE).value>>

RowsOf(st, id) == {r \in st.activities : r.activity_id = id}

\* Start epochs of the records of a batch that carry a start date.
BatchEpochs(batch) ==
    {iso_to_epoch(batch[i].start_date) : i \in {j \in 1..Len(batch) : batch[j].start_date # NULL}}

MaxOf(S) == CHOOSE m \in S : \A x \in S : x <= m

\* The last record of a batch with a given id.
LastWithId(batch, id) ==
    batch[MaxOf({i \in 1..Len(batch) : batch[i].id = id})]

BatchIds(batch) == {batch[i].id : i \in 1..Len(batch)}

RECURSIVE ConcatData(_, _)
ConcatData(ps, n) == IF n = 0 THEN <<>> ELSE ConcatData(ps, n - 1) \o ps[n].data

----------------------------------------------------------------------------
(* C1: the stored cursor of an athlete never decreases from one committed  *)
(* state to the next (no sync stores a cursor lower than the one it read). *)
C1_CursorNeverDecreases ==
    [][\A r \in db.ingestion_state :
          /\ CursorOf(db', r.athlete_id) # NULL
          /\ CursorOf(db', r.athlete_id)[1] >= r.value]_vars

(* C2: between sync attempts the refresh credential stored for an athlete  *)
(* is the one the provider currently accepts, also after an attempt that   *)
(* failed after its token refresh and was rolled back.                     *)
C2_StoredCredentialIsCurrent ==
    pc \in {"refresh", "done"} =>
        \A r \in db.strava_tokens :
            r.refresh_token = <<r.athlete_id, prov_valid[r.athlete_id]>>

(* C3: when a sync of an athlete commits and the provider's data did not   *)
(* change while it ran, every activity the provider holds for that athlete *)
(* is stored.                                                              *)
C3_NoActivitySkipped ==
    [][(CommitStep /\ ~dirty) =>
          \A r \in prov_acts :
              r.athlete = loc.athlete_id => RowsOf(db', r.id) # {}]_vars

(* C4: an athlete's writes are all-or-nothing.  A failing or killed sync   *)
(* leaves the committed tables as they were and nothing pending in the     *)
(* transaction; the committed tables change only by a commit, which        *)
(* publishes the whole transaction; a cursor becomes visible only in a     *)
(* commit that also publishes a row for every record of its batch.         *)
C4_AllOrNothing ==
    [][/\ (FailStep \/ pc' = "killed") => (db' = db /\ tx' = db)
       /\ db' # db => (CommitStep /\ db' = tx /\ summaries' = Append(summaries, pending[1]))
       /\ CommitStep =>
            \A i \in 1..Len(loc.out) :
                \E row \in db'.activities :
                    /\ row.activity_id = loc.out[i].id
                    /\ row.athlete_id = loc.athlete_id
                    /\ row.updated_at = clock]_vars

\* One athlete failed (rolled back) and the next one is about to commit a cursor
\* together with its batch.
C4_Witness ==
    /\ pc = "commit"
    /\ failed # <<>>
    /\ pending[1].retrieved >= 1
    /\ CursorOf(tx, loc.athlete_id) # CursorOf(db, loc.athlete_id)

(* C5: in a multi-athlete run the failure of one athlete changes no        *)
(* committed data, leaves nothing behind in the transaction, and the loop  *)
(* goes on: every sync starts from a clean transaction and when main()     *)
(* ends every selected athlete has been attempted.                         *)
C5_FailureIsolated ==
    [][/\ FailStep => (db' = db /\ summaries' = summaries
                       /\ pc' = next_pc(ti, Len(targets)) /\ ti' = ti + 1)
       /\ pc' = "refresh" => tx' = db'
       /\ pc' \in InSync => Len(summaries') + Len(failed') = ti' - 1
       /\ pc' = "done" => Len(summaries') + Len(failed') = Len(targets')]_vars

\* --all with athletes 1 and 2: athlete 1 failed, athlete 2 succeeded and its
\* activity and cursor are committed.
C5_Witness ==
    /\ pc = "done"
    /\ run.mode = "all"
    /\ failed = <<1>>
    /\ Len(summaries) = 1
    /\ summaries[1].athlete_id = 2
    /\ CursorOf(db, 2) # NULL
    /\ RowsOf(db, 3) # {}

(* C6: when a multi-athlete run ends, its result accounts for every        *)
(* selected athlete.                                                       *)
C6_SummaryCountsEveryAthlete ==
    (pc = "done" /\ run.mode = "all") => Len(summaries) = Len(targets)

(* C7: in single-athlete mode a failed sync makes main() end in an error,  *)
(* never normally.                                                         *)
C7_SingleModePropagates ==
    (run.mode \in {"id", "env"} /\ failed # <<>>) => pc # "done"

(* C8: a successful sync that read cursor c and whose batch has greatest   *)
(* start epoch m stores m - 60 when m > c and leaves the cursor unchanged  *)
(* otherwise; the stored cursor is never above m - 60; every record of the *)
(* batch is stored with the syncing athlete as owner.                      *)
C8_CursorAfterSync ==
    [][CommitStep =>
          LET A == loc.athlete_id
              c == loc.after_epoch
              S == BatchEpochs(loc.out)
          IN  /\ IF S # {} /\ MaxOf(S) > c
                 THEN CursorOf(db', A) = <<MaxOf(S) - 60>>
                 ELSE CursorOf(db', A) = CursorOf(db, A)
              /\ S # {} => /\ CursorOf(db', A) # NULL
                           /\ CursorOf(db', A)[1] <= MaxOf(S) - 60
              /\ \A id \in BatchIds(loc.out) :
                    /\ RowsOf(db', id) # {}
                    /\ \A row \in RowsOf(db', id) : row.athlete_id = A]_vars

\* cursor 1000, starts 1050 and 1200: cursor 1140 and both rows stored
C8_Witness ==
    /\ summaries # <<>>
    /\ summaries[1].athlete_id = 1
    /\ summaries[1].after_epoch = 1000
    /\ summaries[1].advanced_to = 1140
    /\ summaries[1].retrieved = 2
    /\ CursorOf(db, 1) = <<1140>>
    /\ \E r1, r2 \in db.activities :
          /\ r1.athlete_id = 1 /\ r2.athlete_id = 1
          /\ r1.start_date = <<17, 30>> /\ iso_to_epoch(r1.start_date) = 1050
          /\ r2.start_date = <<20, 0>> /\ iso_to_epoch(r2.start_date) = 1200

(* C9: there is at most one stored row per activity id; a sync that        *)
(* ingests an id again leaves the number of rows unchanged and leaves the  *)
(* row holding the columns, payload and timestamp of the latest ingestion, *)
(* a timestamp later than the one the row had.                             *)
C9_UpsertIdempotent ==
    [][/\ \A st \in {db', tx'} : \A id \in ActIds : Cardinality(RowsOf(st, id)) <= 1
       /\ CommitStep =>
            /\ \A id \in BatchIds(loc.out) :
                  /\ RowsOf(db', id) =
                        {ActivityRow(loc.athlete_id, LastWithId(loc.out, id), clock)}
                  /\ \A old \in RowsOf(db, id), new \in RowsOf(db', id) :
                        new.updated_at > old.updated_at
            /\ Cardinality(db'.activities) =
                  Cardinality(db.activities)
                      + Cardinality({id \in BatchIds(loc.out) : RowsOf(db, id) = {}})]_vars

\* An id stored by an earlier transaction has been ingested again with other content.
C9_Witness ==
    /\ pc = "commit"
    /\ \E old \in db.activities, new \in tx.activities :
          /\ old.activity_id = new.activity_id
          /\ new.updated_at > old.updated_at
          /\ new.raw # old.raw
    /\ Cardinality(tx.activities) = Cardinality(db.activities)

(* C10: list_activities_since requests pages 1, 2, 3, .. with the same     *)
(* after and per_page, makes no request after an empty page, and returns   *)
(* the concatenation of the non-empty pages in request order.              *)
C10_Pagination ==
    /\ \A i \in 1..Len(pages) :
          /\ pages[i].page = i
          /\ pages[i].after = loc.after_epoch
          /\ pages[i].per_page = run.per_page
          /\ i < Len(pages) => pages[i].data # <<>>
    /\ pc = "page" =>
          /\ loc.page = Len(pages) + 1
          /\ \A i \in 1..Len(pages) : pages[i].data # <<>>
    /\ pc \in {"upsert", "commit"} =>
          /\ pages # <<>>
          /\ pages[Len(pages)].data = <<>>
    /\ pc \in {"page", "upsert", "commit"} => loc.out = ConcatData(pages, Len(pages))

\* Two non-empty pages of one record each, then the empty page.
C10_Witness ==
    /\ pc = "upsert"
    /\ run.per_page = 1
    /\ Len(pages) = 3
    /\ Len(loc.out) = 2
    /\ loc.out[1] # loc.out[2]

C12_BoundedBackoff ==
    [][/\ attempt' <= 4
       /\ (pc \in {"profile", "page"} /\ attempt' = attempt + 1) =>
            /\ attempt < 4
            /\ sleeps' = Append(sleeps, 2 ^ attempt)
       /\ pc' \in {"profile", "page"} =>
            sleeps' = [i \in 1..attempt' |-> 2 ^ (i - 1)]
       /\ (pc \in {"profile", "page"} /\ attempt = 4 /\ prov_acts' = prov_acts) =>
            \/ pc' = "killed"
            \/ /\ FailStep
               /\ db' = db /\ tx' = db
               /\ summaries' = summaries
               /\ pages' = <<>> /\ pending' = <<>>
               /\ sleeps' = sleeps]_vars

\* A call used up its 4 attempts (delays 1, 2, 4, 8) and the athlete's sync failed.
C12_Witness ==
    /\ pc \in {"refresh", "done"}
    /\ failed # <<>>
    /\ sleeps = <<1, 2, 4, 8>>
    /\ tx = db

(* C13: while a provider GET has attempts left, a response with status 429 *)
(* or any 5xx status is retried, any other 4xx status fails the call at    *)
(* once (no retry, no sleep), and a status below 400 returns the body.     *)
C13_StatusClasses ==
    (pc \in {"profile", "page"} /\ attempt < max_retries) =>
        \A s \in Statuses :
            /\ (s = 429 \/ s \in 500..599) =>
                  (ENABLED StravaGetRetry(s) /\ ~ENABLED StravaGetFail(s))
            /\ (s \in 400..499 /\ s # 429) =>
                  (ENABLED StravaGetFail(s) /\ ~ENABLED StravaGetRetry(s))
            /\ s < 400 =>
                  (~ENABLED StravaGetFail(s) /\ ~ENABLED StravaGetRetry(s)
                   /\ ENABLED (ProfileOk \/ PageOk))

(* C14: a successful activities-list response that is not a list (object,  *)
(* null, string or number, empty or not) makes list_activities_since fail: *)
(* no sync goes on to its upsert phase after such a response.              *)
C14_NonListFails ==
    pc \in {"upsert", "commit"} => \A i \in 1..Len(pages) : pages[i].list

(* C15: a token refresh the provider rejects fails the athlete's sync and  *)
(* is not retried: each target gets one refresh request, a rejected        *)
(* credential never gets past it, and the failure happens before any       *)
(* provider API call or store write for that athlete and leaves the        *)
(* committed tables and the transaction untouched.                         *)
C15_RefreshRejected ==
    [][/\ (pc = "refresh" /\ pc' # "killed") =>
            \/ (ti' = ti /\ pc' = "profile")
            \/ (ti' = ti + 1 /\ pc' \in {"refresh", "done"})
       /\ (pc \in InSync /\ pc' \in InSync) => ti' >= ti
       /\ (pc = "refresh" /\ pc' # "killed"
             /\ targets[ti][2][2] # prov_valid[targets[ti][2][1]]) => FailStep
       /\ (pc = "refresh" /\ FailStep) =>
            /\ tx = db /\ attempt = 0 /\ pages = <<>> /\ sleeps' = sleeps
            /\ db' = db /\ tx' = db
            /\ prov_valid' = prov_valid
            /\ summaries' = summaries
            /\ ti' = ti + 1]_vars

\* Bootstrap mode with a credential the provider rejects: the run is over, the one
\* target failed and nothing was written.
C15_Witness ==
    /\ pc = "done"
    /\ run.mode = "env"
    /\ targets = << <<0, <<1, -1>> >> >>
    /\ failed = <<0>>
    /\ summaries = <<>>
    /\ tx = db

----------------------------------------------------------------------------
\* The same athlete's activities whose start time lies in [T - width, T] of activity r.
WindowOf(st, r, width) ==
    {o \in st.activities :
        /\ o.athlete_id = r.athlete_id
        /\ o.start_date # NULL
        /\ iso_to_epoch(o.start_date) >= iso_to_epoch(r.start_date) - width
        /\ iso_to_epoch(o.start_date) <= iso_to_epoch(r.start_date)}

\* The rows that carry the measurement.
WithValue(rows, col) == {o \in rows : o[col] # NULL}

RollingSumsExact(st) ==
    \A r \in st.activities : r.start_date # NULL =>
        \E f \in st.activity_features :
            /\ f.activity_id = r.activity_id
            /\ \A w \in {<<Days7, "dist_7d_m", "elev_7d_m", "time_7d_s">>,
                          <<Days28, "dist_28d_m", "elev_28d_m", "time_28d_s">>} :
                 LET win == WindowOf(st, r, w[1]) IN
                 /\ WithValue(win, "distance_m") # {} =>
                        f[w[2]] = <<SumOf(WithValue(win, "distance_m"), "distance_m")>>
                 /\ WithValue(win, "total_elevation_gain_m") # {} =>
                        f[w[3]] = <<SumOf(WithValue(win, "total_elevation_gain_m"), "total_elevation_gain_m")>>
                 /\ WithValue(win, "moving_time") # {} =>
                        f[w[4]] = <<SumOf(WithValue(win, "moving_time"), "moving_time")>>

\* C16: after the feature job runs, for every activity with start time T each
\* stored 7-day and 28-day rolling sum of distance, elevation gain and moving
\* time equals the sum of that measurement over exactly the same athlete's
\* activities starting in [T - 7 days, T], resp. [T - 28 days, T], both ends
\* inclusive, the activity itself and its peers at T included, other athletes'
\* activities excluded (windows in which the measurement is wholly absent are
\* not constrained here).
C16_RollingWindows == [][jobs' = jobs + 1 => RollingSumsExact(db')]_vars

\* A job ran where activity 2 starts exactly 7 days after activity 1, one second
\* later than that would leave activity 1 out, and athlete 2's activity 3 starts
\* at the same instant as activity 2: its 7-day distance counts 1 and 2 only.
C16_Witness ==
    /\ jobs >= 1
    /\ \E r1, r2, r3 \in db.activities :
          /\ r1.activity_id = 1 /\ r1.start_date = <<20, 0>> /\ r1.distance_m = <<2000>>
          /\ r2.activity_id = 2 /\ r2.start_date = <<10100, 0>> /\ r2.athlete_id = r1.athlete_id
          /\ r3.activity_id = 3 /\ r3.start_date = <<10100, 0>> /\ r3.athlete_id # r1.athlete_id
    /\ \E f \in db.activity_features :
          f.activity_id = 2 /\ f.dist_7d_m = <<7000>> /\ f.dist_28d_m = <<7000>>
              /\ f.elev_7d_m = <<100>> /\ f.time_7d_s = <<2400>>

RatiosOf(r, f) ==
    /\ (r.distance_m = NULL \/ r.distance_m = <<0>>) =>
          f.pace_s_per_km = NULL /\ f.elev_m_per_km = NULL
    /\ (r.distance_m # NULL /\ r.distance_m # <<0>> /\ r.moving_time # NULL) =>
          /\ f.pace_s_per_km # NULL
          /\ f.pace_s_per_km[1] * r.distance_m[1] = r.moving_time[1] * 1000
    /\ (r.distance_m # NULL /\ r.distance_m # <<0>> /\ r.total_elevation_gain_m # NULL) =>
          /\ f.elev_m_per_km # NULL
          /\ f.elev_m_per_km[1] * r.distance_m[1] = r.total_elevation_gain_m[1] * 1000

\* C17: the job writes a feature row for every dated activity whatever its
\* distance, and in it pace and elevation per km are NULL (not 0) when the
\* activity's distance is 0 or NULL, and are moving time, resp. elevation gain,
\* divided by the distance in km when the distance is positive and the
\* numerator is present.
C17_RatiosNullOrDefined ==
    [][jobs' = jobs + 1 =>
         \A r \in db'.activities : r.start_date # NULL =>
            \E f \in db'.activity_features :
                f.activity_id = r.activity_id /\ RatiosOf(r, f)]_vars

\* A job ran over an activity of distance 0 and one of 5 km in 1500 s with 100 m gain.
C17_Witness ==
    /\ jobs >= 1
    /\ \E f1, f2 \in db.activity_features :
          /\ f1.activity_id = 1 /\ f1.distance_m = <<0>> /\ f1.moving_time_s = <<600>>
          /\ f1.pace_s_per_km = NULL /\ f1.elev_m_per_km = NULL
          /\ f2.activity_id = 2 /\ f2.distance_m = <<5000>>
          /\ f2.pace_s_per_km = <<300>> /\ f2.elev_m_per_km = <<20>>

\* The feature values of a row, the computed-at timestamp left out.
Values(f) == [k \in DOMAIN f \ {"updated_at"} |-> f[k]]

FeaturesConsistent(st) ==
    {f.activity_id : f \in st.activity_features} =
        {r.activity_id : r \in {x \in st.activities : x.start_date # NULL}}

\* No activity row was written since the job that wrote the newest feature row.
UnchangedSinceJob(st) ==
    /\ jobs >= 1
    /\ st.activity_features # {}
    /\ \E f \in st.activity_features :
          \A r \in st.activities : r.updated_at < f.updated_at

SameValues(old, new) ==
    {Values(f) : f \in new.activity_features} = {Values(f) : f \in old.activity_features}

\* C18: after every run of the feature job there is a feature row for an
\* activity id exactly when that activity currently has a non-null start time,
\* and a job run over an activity table that did not change since the previous
\* job run changes no feature value other than the computed-at timestamp.
C18_FullRecomputation ==
    [][jobs' = jobs + 1 =>
         /\ FeaturesConsistent(db')
         /\ UnchangedSinceJob(db) => SameValues(db, db')]_vars

\* The second half alone: re-running the job over an unchanged activity table
\* changes only timestamps.
JobIdempotent ==
    [][(jobs' = jobs + 1 /\ UnchangedSinceJob(db)) => SameValues(db, db')]_vars

\* The first half, one direction only: every dated activity has a feature row.
JobCoversDated ==
    [][jobs' = jobs + 1 =>
         {r.activity_id : r \in {x \in db'.activities : x.start_date # NULL}} \subseteq
         {f.activity_id : f \in db'.activity_features}]_vars

----------------------------------------------------------------------------
\* The stored activities, write timestamps left out.
StoredActivities(st) == {[r EXCEPT !.updated_at = 0] : r \in st.activities}

\* The provider accepts the refresh credential.
Accepted(credential) == credential[2] = prov_valid[credential[1]]

\* The store after the syncs of ts[i], ts[i+1], .. in which no request fails except
\* the refresh of a credential the provider does not accept; `refreshed` tells that
\* the sync of ts[i] is already past its token refresh.
RECURSIVE SyncFrom(_, _, _, _)
SyncFrom(st, ts, i, refreshed) ==
    IF i > Len(ts) THEN st
    ELSE SyncFrom(IF refreshed \/ Accepted(ts[i][2])
                  THEN EarlierSync(st, ts[i][2][1], prov_acts, run.after_default, clock)
                  ELSE st,
                  ts, i + 1, FALSE)

\* C19: a kill at any point of a run leaves the committed store as the commits
\* of the athletes finished before it made it, with nothing of the athlete being
\* processed; and running the same sync again from there stores the same
\* activities as the run would have stored had it gone on undisturbed (taken
\* for runs in which no athlete failed before the kill, over provider data that
\* did not change).
C19_KillThenRerun ==
    [][(pc \in InSync /\ pc' = "killed") =>
         /\ db' = db /\ tx' = db
         /\ (failed = <<>> /\ events = 0) =>
            StoredActivities(SyncFrom(db', choose_targets(run.mode, targets[1][1],
                                                          targets[1][2], db'), 1, FALSE))
              = StoredActivities(SyncFrom(db, targets, ti, pc # "refresh"))]_vars

----------------------------------------------------------------------------
\* The rows of every table that are stored under an athlete id, the activities
\* with ids in `except` left out.
RowsUnder(st, athlete_id, except) ==
    [athletes |-> {r \in st.athletes : r.athlete_id = athlete_id},
     strava_tokens |-> {r \in st.strava_tokens : r.athlete_id = athlete_id},
     ingestion_state |-> {r \in st.ingestion_state : r.athlete_id = athlete_id},
     activities |-> {r \in st.activities :
                        r.athlete_id = athlete_id /\ r.activity_id \notin except}]

\* The hint of the target being synced differs from the owner of its credential.
Mismatched ==
    /\ pc \in InSync
    /\ targets[ti][1] # 0
    /\ targets[ti][1] # targets[ti][2][1]

\* C20: a hint that differs from the athlete id the provider reports does not
\* make the sync fail: the profile request's return is followed by exactly one
\* warning naming both ids, the sync goes on under the reported id (its cursor
\* is read under it), and what it writes and commits (profile row, token row,
\* cursor, activities) is stored under the reported id, while no row stored
\* under the hint, or under any other id, is created or changed.
C20_HintOnlyWarns ==
    [][/\ (Mismatched /\ pc = "profile" /\ attempt < max_retries) => ENABLED ProfileOk
       /\ (pc = "profile" /\ pc' = "page") =>
            LET A == targets[ti][2][1]
                H == targets[ti][1]
            IN  /\ loc'.athlete_id = A
                /\ loc'.after_epoch =
                       (IF CursorOf(tx, A) = NULL THEN run.after_default ELSE CursorOf(tx, A)[1])
                /\ warned' = IF Mismatched THEN Append(warned, <<H, A>>) ELSE warned
                /\ \E r \in tx'.strava_tokens :
                       r.athlete_id = A /\ r.refresh_token = loc.new_refresh
                /\ \E r \in tx'.athletes : r.athlete_id = A
                /\ \A a \in Athletes \ {A} : RowsUnder(tx', a, {}) = RowsUnder(tx, a, {})
       /\ (Mismatched /\ CommitStep) =>
            LET A == targets[ti][2][1]
            IN  /\ summaries'[Len(summaries')].athlete_id = A
                /\ \A id \in BatchIds(loc.out) :
                       RowsOf(db', id) # {} /\ \A row \in RowsOf(db', id) : row.athlete_id = A
                /\ \A a \in Athletes \ {A} :
                       RowsUnder(db', a, BatchIds(loc.out)) = RowsUnder(db, a, BatchIds(loc.out))]_vars

\* --athlete-id 2 with athlete 1's credential in athlete 2's token row: warned
\* once, committed; activity 1 and a cursor are stored under athlete 1, and the
\* cursor and the token row of athlete 2 are as before.
C20_Witness ==
    /\ pc = "done"
    /\ run.mode = "id"
    /\ warned = << <<2, 1>> >>
    /\ failed = <<>>
    /\ Len(summaries) = 1
    /\ summaries[1].athlete_id = 1
    /\ summaries[1].retrieved = 1
    /\ \A row \in RowsOf(db, 1) : row.athlete_id = 1
    /\ RowsOf(db, 1) # {}
    /\ CursorOf(db, 1) = <<990>>
    /\ CursorOf(db, 2) = <<1140>>
    /\ \E r \in db.strava_tokens : r.athlete_id = 2 /\ r.refresh_token = <<1, 0>>
    /\ \E r \in db.strava_tokens : r.athlete_id = 1 /\ r.refresh_token = <<1, 0>>

----------------------------------------------------------------------------
\* The sum of a measurement over rows, a missing measurement counted as 0.
RECURSIVE SumZero(_, _)
SumZero(rows, col) ==
    IF rows = {} THEN 0
    ELSE LET r == CHOOSE x \in rows : TRUE
         IN  (IF r[col] = NULL THEN 0 ELSE r[col][1]) + SumZero(rows \ {r}, col)

\* C21: after the feature job runs, every rolling sum of every feature row
\* equals the sum of the measurement over the window with missing measurements
\* counted as 0, also when every activity of the window lacks the measurement
\* (the sum is then 0).
C21_NullCountsAsZero ==
    [][jobs' = jobs + 1 =>
         \A r \in db'.activities : r.start_date # NULL =>
            \E f \in db'.activity_features :
                /\ f.activity_id = r.activity_id
                /\ \A w \in {<<Days7, "dist_7d_m", "elev_7d_m", "time_7d_s">>,
                              <<Days28, "dist_28d_m", "elev_28d_m", "time_28d_s">>} :
                     LET win == WindowOf(db', r, w[1]) IN
                     /\ f[w[2]] = <<SumZero(win, "distance_m")>>
                     /\ f[w[3]] = <<SumZero(win, "total_elevation_gain_m")>>
                     /\ f[w[4]] = <<SumZero(win, "moving_time")>>]_vars

\* The part of C21 that holds: a window with at least one measured activity sums
\* the measured ones, the others adding nothing.
PartlyNullCountsAsZero ==
    [][jobs' = jobs + 1 =>
         \A r \in db'.activities : r.start_date # NULL =>
            \E f \in db'.activity_features :
                /\ f.activity_id = r.activity_id
                /\ LET win == WindowOf(db', r, Days7) IN
                   WithValue(win, "total_elevation_gain_m") # {} =>
                       f.elev_7d_m = <<SumZero(win, "total_elevation_gain_m")>>]_vars

----------------------------------------------------------------------------
\* The upsert loop of a sync ran (ingest_one_athlete returned its summary).
IngestStep == pc = "upsert" /\ pc' = "commit"

\* C22: the upsert writer returns the record's start time in epoch seconds, or
\* null for a record without a start time; such a record is still written and
\* counted but leaves the high-water mark alone: after the loop max_epoch is the
\* maximum of the starting cursor and the start epochs of the dated records.
C22_HighWaterMark ==
    [][IngestStep =>
         LET res == upsert_all(tx, loc.athlete_id, loc.after_epoch, loc.out, clock)
             m == MaxOf({loc.after_epoch} \cup BatchEpochs(loc.out))
         IN  /\ \A i \in 1..Len(loc.out) :
                   upsert_epoch(loc.out[i]) =
                       IF loc.out[i].start_date = NULL THEN NULL
                       ELSE <<loc.out[i].start_date[1] * 60 + loc.out[i].start_date[2]>>
             /\ res.max_epoch = m
             /\ res.upserted = Len(loc.out)
             /\ pending'[1].upserted = Len(loc.out)
             /\ pending'[1].advanced_to = (IF m > loc.after_epoch THEN m - 60 ELSE loc.after_epoch)
             /\ \A id \in BatchIds(loc.out) :
                   \E row \in tx'.activities :
                       row.activity_id = id /\ row.updated_at = clock]_vars

\* A batch of a record without start date and one starting at 00:20:00 (1200) was
\* upserted from cursor 1000: both counted and stored, cursor moved to 1140.
C22_Witness ==
    /\ pc = "commit"
    /\ loc.after_epoch = 1000
    /\ Len(loc.out) = 2
    /\ \E i, j \in 1..2 : loc.out[i].start_date = NULL /\ loc.out[j].start_date = <<20, 0>>
    /\ pending[1].upserted = 2
    /\ pending[1].advanced_to = 1140
    /\ \E row \in tx.activities : row.start_date = NULL
    /\ CursorOf(tx, loc.athlete_id) = <<1140>>

----------------------------------------------------------------------------
\* main() was invoked.
RunStart == runs' = runs + 1

\* The token rows that hold a non-null, non-empty refresh credential.
UsableRows(st) ==
    {r \in st.strava_tokens : r.refresh_token # NULL /\ r.refresh_token # EmptyString}

\* C23: --all targets exactly the athletes whose token row holds a non-null,
\* non-empty refresh credential, each once and with that credential;
\* --athlete-id targets the given id with the credential stored for it; when
\* --all finds no athlete or the given id has no usable credential the run
\* raises at once: it never enters a sync (no provider call) and writes nothing.
C23_TargetSelection ==
    [][/\ RunStart =>
            /\ run'.mode = "all" =>
                  /\ {targets'[i] : i \in 1..Len(targets')} =
                         {<<r.athlete_id, r.refresh_token>> : r \in UsableRows(db)}
                  /\ Len(targets') = Cardinality({r.athlete_id : r \in UsableRows(db)})
            /\ run'.mode = "id" =>
                  LET rows == {r \in UsableRows(db) : r.athlete_id = run'.athlete_id}
                  IN  /\ rows = {} => targets' = <<>>
                      /\ \A r \in rows : targets' = << <<r.athlete_id, r.refresh_token>> >>
            /\ targets' = <<>> => (pc' = "raised" /\ db' = db /\ tx' = tx)
            /\ targets' # <<>> => (pc' = "refresh" /\ ti' = 1 /\ db' = db)
       /\ pc = "raised" => (db' = db /\ tx' = tx /\ (pc' = "raised" \/ RunStart))]_vars

\* --all over a store in which athlete 1's token row has no usable credential and
\* athlete 2's has one: athlete 2 alone was targeted and synced.
C23_Witness ==
    /\ pc = "done"
    /\ run.mode = "all"
    /\ targets = << <<2, <<2, 0>> >> >>
    /\ \E r \in db.strava_tokens : r.athlete_id = 1 /\ r.refresh_token = EmptyString
    /\ Len(summaries) = 1
    /\ summaries[1].athlete_id = 2
    /\ RowsOf(db, 3) # {}

----------------------------------------------------------------------------
\* C24: an override given on the command line (any integer, 0 included for the
\* default cursor) is the value used in place of the environment's default,
\* which is used when no override is given; and a sync starts from the stored
\* cursor of its athlete when there is one, from the default cursor otherwise.
C24_Overrides ==
    [][/\ RunStart =>
            /\ run'.after_default = (IF run'.args.after_default # NULL
                                     THEN run'.args.after_default[1]
                                     ELSE STRAVA_AFTER_EPOCH_DEFAULT)
            /\ run'.per_page = (IF run'.args.per_page # NULL
                                THEN run'.args.per_page[1]
                                ELSE STRAVA_PER_PAGE)
       /\ (pc = "profile" /\ pc' = "page") =>
            loc'.after_epoch = (IF CursorOf(tx, loc'.athlete_id) # NULL
                                THEN CursorOf(tx, loc'.athlete_id)[1]
                                ELSE run.after_default)]_vars

\* The parts of C24 that hold: non-zero overrides are used, and the stored cursor
\* takes precedence over the default.
NonZeroOverrides ==
    [][/\ RunStart =>
            /\ (run'.args.after_default # NULL /\ run'.args.after_default # <<0>>) =>
                  run'.after_default = run'.args.after_default[1]
            /\ run'.args.after_default = NULL =>
                  run'.after_default = STRAVA_AFTER_EPOCH_DEFAULT
            /\ run'.per_page = (IF run'.args.per_page # NULL
                                THEN run'.args.per_page[1]
                                ELSE STRAVA_PER_PAGE)
       /\ (pc = "profile" /\ pc' = "page") =>
            loc'.after_epoch = (IF CursorOf(tx, loc'.athlete_id) # NULL
                                THEN CursorOf(tx, loc'.athlete_id)[1]
                                ELSE run.after_default)]_vars

----------------------------------------------------------------------------
\* The stored activity ids with their owners.
Owners(st) == {<<r.activity_id, r.athlete_id>> : r \in st.activities}

\* A sync of athlete 1 commits and the provider's data is as it was when athlete 1
\* was synced before (in SpecResync athlete 1 has been synced once initially).
ResyncCommits == CommitStep /\ loc.athlete_id = 1 /\ events = 0

----------------------------------------------------------------------------
\* C26: the summary a sync returns has upserted = retrieved = the number of
\* records of the batch, each retrieved record counting as one upsert also when
\* several records of the batch carry the same id; the one row stored for such
\* an id then holds the last of them in batch order.
C26_UpsertedEqualsRetrieved ==
    [][IngestStep =>
          /\ pending'[1].retrieved = Len(loc.out)
          /\ pending'[1].upserted = pending'[1].retrieved
          /\ \A id \in BatchIds(loc.out) :
                /\ Cardinality(RowsOf(tx', id)) = 1
                /\ \A row \in RowsOf(tx', id) :
                      /\ row.raw = LastWithId(loc.out, id)
                      /\ row.start_date = LastWithId(loc.out, id).start_date
                      /\ row.athlete_id = loc.athlete_id]_vars

\* Activity 2 was fetched on page 1 starting 19:30, then edited to start 20:00 and
\* fetched again on page 2: two records counted, the stored row starts 20:00.
C26_Witness ==
    /\ pc = "commit"
    /\ Len(loc.out) = 2
    /\ loc.out[1].id = 2 /\ loc.out[1].start_date = <<19, 30>>
    /\ loc.out[2].id = 2 /\ loc.out[2].start_date = <<20, 0>>
    /\ pending[1].retrieved = 2
    /\ pending[1].upserted = 2
    /\ \A row \in RowsOf(tx, 2) : row.start_date = <<20, 0>>
    /\ Cardinality(RowsOf(tx, 2)) = 1

----------------------------------------------------------------------------
\* C27: within a sync every activities-list request completes before the first
\* activity upsert: while pages are being requested the transaction holds no
\* activity or cursor write, activity rows are written by the upsert loop only,
\* and when a page request fails (a non-retryable status, or retries exhausted),
\* also after earlier pages were fetched, nothing of the sync is stored.
C27_FetchBeforeUpsert ==
    [][/\ pc' = "page" =>
            /\ tx'.activities = db'.activities
            /\ tx'.ingestion_state = db'.ingestion_state
       /\ (pc \in InSync /\ pc' \in InSync /\ ti' = ti /\ tx'.activities # tx.activities) =>
            IngestStep
       /\ (pc = "page" /\ FailStep) =>
            /\ db' = db
            /\ tx' = db
            /\ pending' = <<>>
            /\ summaries' = summaries]_vars

\* Page 1 of athlete 1 was fetched with one record, and the request for page 2
\* has used up its four attempts: nothing is written so far.
C27_Witness ==
    /\ pc = "page"
    /\ loc.page = 2
    /\ Len(loc.out) = 1
    /\ Len(pages) = 1
    /\ attempt = max_retries
    /\ sleeps = <<1, 2, 4, 8>>
    /\ tx.activities = {}
    /\ CursorOf(tx, loc.athlete_id) = NULL

----------------------------------------------------------------------------
\* A provider GET of the sync returned its response to the caller.
RequestReturns ==
    /\ pc \in {"profile", "page"}
    /\ pc' \in {"page", "upsert"}
    /\ (pc = "profile" \/ Len(pages') = Len(pages) + 1)

\* C28: the retry budget is per request: the profile request and every page
\* request start with attempt 0, whatever the requests before them consumed, a
\* retry stays within its request, and no request makes more than 4 attempts.
C28_BudgetPerRequest ==
    [][/\ RequestReturns => (attempt' = 0 /\ sleeps' = <<>>)
       /\ (pc = "refresh" /\ pc' = "profile") => (attempt' = 0 /\ sleeps' = <<>>)
       /\ (pc' \in {"profile", "page"} /\ ~RequestReturns /\ pc \in {"profile", "page"}
             /\ attempt' # attempt) =>
            (attempt' = attempt + 1 /\ pc' = pc /\ loc' = loc /\ pages' = pages)
       /\ pc' \in {"profile", "page"} => attempt' <= max_retries]_vars

\* The request for page 2 is at its fourth attempt, after the profile request and
\* the request for page 1 of the same sync returned.
C28_Witness ==
    /\ pc = "page"
    /\ loc.page = 2
    /\ Len(pages) = 1
    /\ attempt = max_retries - 1
    /\ sleeps = <<1, 2, 4>>
    /\ ENABLED PageOk

----------------------------------------------------------------------------
TokenOf(st, athlete_id) ==
    (CHOOSE r \in st.strava_tokens : r.athlete_id = athlete_id).refresh_token

\* C29: when the token response leaves the credential as it is (it repeats it,
\* carries no refresh_token, or an empty one) the credential kept for the
\* athlete is the one sent; the token row a sync writes and commits holds the
\* kept credential, never null or empty; used_refresh_token_changed in the
\* summary is true exactly when the committed credential differs from the sent one.
C29_RefreshCredentialKept ==
    [][/\ (pc = "refresh" /\ pc' = "profile") =>
            /\ loc'.refresh_token = targets[ti][2]
            /\ loc'.new_refresh \notin {NULL, EmptyString}
            /\ prov_valid' = prov_valid => loc'.new_refresh = targets[ti][2]
       /\ (pc = "profile" /\ pc' = "page") =>
            TokenOf(tx', loc'.athlete_id) = loc.new_refresh
       /\ CommitStep =>
            /\ TokenOf(db', loc.athlete_id) = loc.new_refresh
            /\ TokenOf(db', loc.athlete_id) \notin {NULL, EmptyString}
            /\ summaries'[Len(summaries')].used_refresh_token_changed =
                   (TokenOf(db', loc.athlete_id) # targets[ti][2])]_vars

\* Two syncs of one run were committed: the first kept the credential it sent,
\* the second was given another one by the provider.
C29_Witness ==
    /\ Len(summaries) = 2
    /\ ~summaries[1].used_refresh_token_changed
    /\ summaries[2].used_refresh_token_changed
    /\ TokenOf(db, 1) = <<1, 0>>
    /\ TokenOf(db, 2) = <<2, 1>>

----------------------------------------------------------------------------
\* The cursor row, the token row and the profile row stored under an athlete.
KeyedRows(st, athlete_id) ==
    [athletes |-> {r \in st.athletes : r.athlete_id = athlete_id},
     strava_tokens |-> {r \in st.strava_tokens : r.athlete_id = athlete_id},
     ingestion_state |-> {r \in st.ingestion_state : r.athlete_id = athlete_id}]

\* What a sync of athlete A with the retrieved batch may change from store `old`
\* to store `new`.
SyncFrame(old, new, A, batch) ==
    /\ \A o \in Athletes \ {A} : KeyedRows(new, o) = KeyedRows(old, o)
    /\ \A id \in ActIds \ BatchIds(batch) : RowsOf(new, id) = RowsOf(old, id)
    /\ \A id \in BatchIds(batch) :
          /\ RowsOf(new, id) # {}
          /\ \A r \in RowsOf(new, id) : r.athlete_id = A

\* C30: a sync for the discovered athlete A leaves the cursor row, the token row
\* and the profile row of every other athlete unchanged (the hinted athlete's
\* too), and changes activity rows only for the ids of A's retrieved batch, which
\* are owned by A afterwards whoever owned them before: in the open transaction
\* before the upsert loop (empty batch), after it, and in the committed store.
C30_SyncFrame ==
    [][/\ pc' \in {"page", "upsert"} => SyncFrame(db', tx', loc'.athlete_id, <<>>)
       /\ pc' = "commit" => SyncFrame(db', tx', loc'.athlete_id, loc'.out)
       /\ CommitStep => SyncFrame(db, db', loc.athlete_id, loc.out)
       /\ (FailStep \/ (pc \in InSync /\ pc' = "killed")) => db' = db]_vars

\* The sync started for hint 2 discovered athlete 1 and has upserted activity 1,
\* which the committed store holds under athlete 2; athlete 2's rows are as stored.
C30_Witness ==
    /\ pc = "commit"
    /\ targets[ti][1] = 2
    /\ loc.athlete_id = 1
    /\ BatchIds(loc.out) = {1}
    /\ \E r \in RowsOf(db, 1) : r.athlete_id = 2
    /\ \A r \in RowsOf(tx, 1) : r.athlete_id = 1
    /\ KeyedRows(tx, 2) = KeyedRows(db, 2)
    /\ KeyedRows(tx, 2).strava_tokens =
           {[athlete_id |-> 2, access_token |-> 2, refresh_token |-> <<1, 0>>]}
    /\ KeyedRows(tx, 1) # KeyedRows(db, 1)
====
